---- MODULE Spec2Model ----
(***************************************************************************)
(* A model of github.com/jackc/numfmt (numfmt.go).                         *)
(*                                                                         *)
(* Go strings are sequences of one-character strings; a decimal.Decimal is *)
(* the record [value, exp] standing for value * 10^exp, as in              *)
(* shopspring/decimal; a compiledTemplate is a sequence of parts.          *)
(***************************************************************************)
EXTENDS Integers, Sequences, FiniteSets, TLC

VARIABLES
    f,      \* the Formatter: option fields, compiled templates, the sync.Once
    arg,    \* the argument of the last Format call
    out,    \* what the last Format call returned
    num,    \* writeSeparateGroups: the digit string
    sep,    \* writeSeparateGroups: the group separator
    size,   \* writeSeparateGroups: the group size
    sb,     \* writeSeparateGroups: the strings.Builder it writes to
    status, \* writeSeparateGroups: "none" before the call, then "returned" or "panicked"
    pc,     \* concurrent callers: where each goroutine is in Format
    cur,    \* concurrent callers: the argument of each goroutine's call
    res,    \* concurrent callers: what each goroutine's last call returned
    onceM,  \* compileTemplateOnce.m: 0 when unlocked, else the goroutine holding it
    compiles, \* how many times the body of compileTemplates has been entered
    calls,  \* counted calls: how many Format calls the Formatter has served
    targs,  \* TemplateFunc: the key/value arguments
    tfunc,  \* TemplateFunc: the call with targs, and the last call of what it returned
    timm    \* TemplateFunc: the call with targs and a value appended

fmtVars == <<f, arg, out>>
grpVars == <<num, sep, size, sb, status>>
conVars == <<pc, cur, res, onceM, compiles>>
auxVars == <<calls, targs, tfunc, timm>>
vars == <<f, arg, out, num, sep, size, sb, status, pc, cur, res, onceM, compiles,
          calls, targs, tfunc, timm>>

-----------------------------------------------------------------------------
(* Bounds of the model *)

\* longest digit string handed to writeSeparateGroups on its own
MaxNumLen == 7
\* largest group size (Formatter.GroupSize, and writeSeparateGroups' groupSize)
MaxGroupSize == 2
\* largest groupSize handed to writeSeparateGroups on its own
MaxSize == 4
\* number of goroutines calling Format on one shared Formatter
NumProcs == 2
\* most option fields of a Formatter that differ from the zero value
MaxOptionsSet == 2
\* largest Rounder.Places
MaxPlaces == 1
\* largest Formatter.Shift
MaxShift == 2
\* largest Formatter.MinDecimalPlaces
MaxMinDecimalPlaces == 2
\* most fraction digits of a numeric argument
MaxFracDigits == 3
\* most Format calls counted on one Formatter
MaxCalls == 3
\* most key/value pairs given to TemplateFunc
MaxPairs == 2

-----------------------------------------------------------------------------
(* Strings *)

Digits == <<"0", "1", "2", "3", "4", "5", "6", "7", "8", "9">>

IsDigit(c) == \E i \in 1..10 : Digits[i] = c

DigitVal(c) == (CHOOSE i \in 1..10 : Digits[i] = c) - 1

RECURSIVE Zeros(_)
Zeros(k) == IF k <= 0 THEN <<>> ELSE <<"0">> \o Zeros(k - 1)

RECURSIVE Pow10(_)
Pow10(k) == IF k <= 0 THEN 1 ELSE 10 * Pow10(k - 1)

\* big.Int.String of a non-negative integer
RECURSIVE NatString(_)
NatString(n) ==
    IF n < 10 THEN <<Digits[n + 1]>>
    ELSE NatString(n \div 10) \o <<Digits[(n % 10) + 1]>>

\* strings.IndexAny(s, chars): the first index (from 1) of a byte of chars, 0 if none
IndexAny(s, chars) ==
    IF \E i \in 1..Len(s) : s[i] \in chars
    THEN CHOOSE i \in 1..Len(s) : s[i] \in chars /\ \A j \in 1..(i - 1) : s[j] \notin chars
    ELSE 0

\* s[from:] of Go, from counted from 0
From(s, from) == SubSeq(s, from + 1, Len(s))

\* s[:to] of Go
Upto(s, to) == SubSeq(s, 1, to)

-----------------------------------------------------------------------------
(* decimal.Decimal, as far as Format uses it *)

\* big.Int.Quo: division truncated towards zero
Quo(a, b) == IF a >= 0 THEN a \div b ELSE -((-a) \div b)

\* strconv.ParseInt(s, 10, _): an optional sign, then at least one digit
RECURSIVE DigitsValue(_)
DigitsValue(s) ==
    IF s = <<>> THEN 0
    ELSE 10 * DigitsValue(Upto(s, Len(s) - 1)) + DigitVal(s[Len(s)])

ParseInt(s) ==
    LET signed == s # <<>> /\ s[1] \in {"-", "+"}
        body == IF signed THEN From(s, 1) ELSE s
    IN  IF body = <<>> \/ \E i \in 1..Len(body) : ~IsDigit(body[i])
        THEN [ok |-> FALSE, n |-> 0]
        ELSE [ok |-> TRUE,
              n |-> IF signed /\ s[1] = "-" THEN -DigitsValue(body) ELSE DigitsValue(body)]

\* decimal.NewFromString
NewFromString(s) ==
    LET eIndex == IndexAny(s, {"E", "e"})
        expPart == IF eIndex = 0 THEN [ok |-> TRUE, n |-> 0] ELSE ParseInt(From(s, eIndex))
        value == IF eIndex = 0 THEN s ELSE Upto(s, eIndex - 1)
        points == {i \in 1..Len(value) : value[i] = "."}
        pIndex == IF points = {} THEN 0 ELSE CHOOSE i \in points : TRUE
        intString == IF pIndex = 0 THEN value
                     ELSE Upto(value, pIndex - 1) \o From(value, pIndex)
        fracLen == IF pIndex = 0 THEN 0 ELSE Len(value) - pIndex
        parsed == ParseInt(intString)
    IN  IF ~expPart.ok \/ Cardinality(points) > 1 \/ ~parsed.ok
        THEN [err |-> TRUE, d |-> [value |-> 0, exp |-> 0]]
        ELSE [err |-> FALSE, d |-> [value |-> parsed.n, exp |-> expPart.n - fracLen]]

\* Decimal.Shift
Shift(d, shift) == [value |-> d.value, exp |-> d.exp + shift]

\* Decimal.rescale
rescale(d, exp) ==
    IF d.exp = exp THEN d
    ELSE IF exp > d.exp
         THEN [value |-> Quo(d.value, Pow10(exp - d.exp)), exp |-> exp]
         ELSE [value |-> d.value * Pow10(d.exp - exp), exp |-> exp]

\* Decimal.Round: half away from zero
Round(d, places) ==
    IF d.exp = -places THEN d
    ELSE LET ret == rescale(d, -places - 1)
             v == IF ret.value < 0 THEN ret.value - 5 ELSE ret.value + 5
             q == v \div 10
             m == v % 10
         IN  [value |-> IF q < 0 /\ m # 0 THEN q + 1 ELSE q, exp |-> ret.exp + 1]

RECURSIVE TrimTrailingZeros(_)
TrimTrailingZeros(s) ==
    IF s # <<>> /\ s[Len(s)] = "0" THEN TrimTrailingZeros(Upto(s, Len(s) - 1)) ELSE s

\* Decimal.String: trailing fraction zeros trimmed, "-" only before a non-zero value
String(d) ==
    IF d.exp >= 0
    THEN LET v == rescale(d, 0).value
         IN  IF v < 0 THEN <<"-">> \o NatString(-v) ELSE NatString(v)
    ELSE LET abs == NatString(IF d.value < 0 THEN -d.value ELSE d.value)
             k == -d.exp
             intPart == IF Len(abs) > k THEN Upto(abs, Len(abs) - k) ELSE <<"0">>
             fractionalPart == TrimTrailingZeros(
                                  IF Len(abs) > k THEN From(abs, Len(abs) - k)
                                  ELSE Zeros(k - Len(abs)) \o abs)
             number == IF fractionalPart = <<>> THEN intPart
                       ELSE intPart \o <<".">> \o fractionalPart
         IN  IF d.value < 0 THEN <<"-">> \o number ELSE number

-----------------------------------------------------------------------------
(* Grouping *)

\* The bytes writeSeparateGroups writes to sb.  A slice expression with a
\* negative bound panics: then nothing is written and panic is TRUE.
RECURSIVE writeGroupsLoop(_, _, _, _, _, _)
writeGroupsLoop(written, n, groupSeparator, groupSize, numIdx, i) ==
    IF i <= 0 THEN written
    ELSE writeGroupsLoop(
             written \o groupSeparator \o SubSeq(n, numIdx + 1, numIdx + groupSize),
             n, groupSeparator, groupSize, numIdx + groupSize, i - 1)

\* Go's / and % on ints: truncated towards zero, the remainder has the dividend's sign
GoDiv(a, b) == IF b > 0 THEN Quo(a, b) ELSE -Quo(a, -b)
GoMod(a, b) == a - b * GoDiv(a, b)

\* writeSeparateGroups without the adjustment for a length that is a multiple of
\* groupSize: the first group is then empty
writeSeparateGroupsNoAdjust(n, groupSeparator, groupSize) ==
    IF Len(groupSeparator) = 0 \/ groupSize = 0 \/ Len(n) <= groupSize
    THEN [panic |-> FALSE, written |-> n]
    ELSE [panic |-> FALSE,
          written |-> writeGroupsLoop(Upto(n, GoMod(Len(n), groupSize)), n,
                                      groupSeparator, groupSize,
                                      GoMod(Len(n), groupSize),
                                      GoDiv(Len(n), groupSize))]

writeSeparateGroups(n, groupSeparator, groupSize) ==
    IF Len(groupSeparator) = 0 \/ groupSize = 0 \/ Len(n) <= groupSize
    THEN [panic |-> FALSE, written |-> n]
    ELSE LET rem == GoMod(Len(n), groupSize)
             numIdx == IF rem = 0 THEN groupSize ELSE rem
             sepCount == IF rem = 0 THEN GoDiv(Len(n), groupSize) - 1
                         ELSE GoDiv(Len(n), groupSize)
         IN  IF numIdx < 0 THEN [panic |-> TRUE, written |-> <<>>]
             ELSE [panic |-> FALSE,
                   written |-> writeGroupsLoop(Upto(n, numIdx), n, groupSeparator,
                                               groupSize, numIdx, sepCount)]

-----------------------------------------------------------------------------
(* Templates *)

Literal(text) == [kind |-> "Literal", text |-> text]
Number == [kind |-> "Number", text |-> <<>>]
OptionalSign == [kind |-> "OptionalSign", text |-> <<>>]
ForceSign == [kind |-> "ForceSign", text |-> <<>>]

\* a compiledTemplate value: Go's nil slice, or a slice of parts
Nil == [isNil |-> TRUE, parts |-> <<>>]
Compiled(parts) == [isNil |-> FALSE, parts |-> parts]

flush(ct, literal) == IF Len(literal) > 0 THEN Append(ct, Literal(literal)) ELSE ct

verbPart(b) ==
    IF b = "n" THEN Number ELSE IF b = "-" THEN OptionalSign ELSE ForceSign

\* the read loop of compileTemplate, from byte i of s on
RECURSIVE compileLoop(_, _, _, _, _, _)
compileLoop(s, i, ct, literal, explicitSign, escape) ==
    IF i > Len(s) THEN [ct |-> flush(ct, literal), explicitSign |-> explicitSign]
    ELSE LET b == s[i] IN
         IF escape THEN compileLoop(s, i + 1, ct, literal \o <<b>>, explicitSign, FALSE)
         ELSE IF b = "\\" THEN compileLoop(s, i + 1, ct, literal, explicitSign, TRUE)
         ELSE IF b \in {"n", "-", "+"}
              THEN compileLoop(s, i + 1, Append(flush(ct, literal), verbPart(b)), <<>>,
                               explicitSign \/ b \in {"-", "+"}, FALSE)
              ELSE compileLoop(s, i + 1, ct, literal \o <<b>>, explicitSign, FALSE)

\* the loop that runs when the template has no sign verb: it ranges over the
\* parts ct had on entry, appends an OptionalSign to ct for each Number part
\* and the part itself to newCt; newCt is what compileTemplate goes on with
RECURSIVE signLoop(_, _, _, _)
signLoop(parts, i, ct, newCt) ==
    IF i > Len(parts) THEN [ct |-> ct, newCt |-> newCt]
    ELSE signLoop(parts, i + 1,
                  IF parts[i].kind = "Number" THEN Append(ct, OptionalSign) ELSE ct,
                  Append(newCt, parts[i]))

\* compileTemplate with the escape flag never acted on: a backslash is skipped
\* and the byte after it is read as any other byte
compileTemplateNoEscape(s) ==
    LET read == compileLoop(SelectSeq(s, LAMBDA b : b # "\\"), 1, <<>>, <<>>, FALSE, FALSE)
    IN  IF ~read.explicitSign
        THEN signLoop(read.ct, 1, read.ct, <<>>).newCt
        ELSE read.ct

compileTemplate(s) ==
    LET read == compileLoop(s, 1, <<>>, <<>>, FALSE, FALSE)
    IN  IF ~read.explicitSign
        THEN signLoop(read.ct, 1, read.ct, <<>>).newCt
        ELSE read.ct

\* the Number step without the defaults: an empty GroupSeparator and a zero
\* GroupSize go to writeSeparateGroups as they are
writeNumberNoDefaults(fm, intPart, fracPart) ==
    LET decimalSeparator == IF fm.DecimalSeparator # <<>> THEN fm.DecimalSeparator
                            ELSE <<".">>
    IN  writeSeparateGroups(intPart, fm.GroupSeparator, fm.GroupSize).written
        \o (IF Len(fracPart) # 0 THEN decimalSeparator \o fracPart ELSE <<>>)

\* compiledTemplatePart.write of the four part types: the bytes written
writeNumber(fm, intPart, fracPart) ==
    LET groupSeparator == IF fm.GroupSeparator # <<>> THEN fm.GroupSeparator ELSE <<",">>
        groupSize == IF fm.GroupSize # 0 THEN fm.GroupSize ELSE 3
        decimalSeparator == IF fm.DecimalSeparator # <<>> THEN fm.DecimalSeparator
                            ELSE <<".">>
    IN  writeSeparateGroups(intPart, groupSeparator, groupSize).written
        \o (IF Len(fracPart) # 0 THEN decimalSeparator \o fracPart ELSE <<>>)

writeOptionalSign(neg) == IF neg THEN <<"-">> ELSE <<>>

\* the forced sign without the test of neg
writeForceSignAlwaysPlus(neg) == <<"+">>

writeForceSign(neg) == IF neg THEN <<"-">> ELSE <<"+">>

writePart(part, fm, neg, intPart, fracPart) ==
    IF part.kind = "Literal" THEN part.text
    ELSE IF part.kind = "Number" THEN writeNumber(fm, intPart, fracPart)
    ELSE IF part.kind = "OptionalSign" THEN writeOptionalSign(neg)
    ELSE writeForceSign(neg)

\* compiledTemplate.write
RECURSIVE writeTemplate(_, _, _, _, _)
writeTemplate(parts, fm, neg, intPart, fracPart) ==
    IF parts = <<>> THEN <<>>
    ELSE writePart(Head(parts), fm, neg, intPart, fracPart)
         \o writeTemplate(Tail(parts), fm, neg, intPart, fracPart)

-----------------------------------------------------------------------------
(* The Formatter *)

NilRounder == [isNil |-> TRUE, Places |-> 0]
Rounder(places) == [isNil |-> FALSE, Places |-> places]

\* t := "n"; if f.Template != "" { t = f.Template }
templateOrDefault(fm) == IF fm.Template # <<>> THEN fm.Template ELSE <<"n">>

\* Formatter.compileTemplates, its first assignment
compileFirst(fm) ==
    [fm EXCEPT !.compiledTemplate = Compiled(compileTemplate(templateOrDefault(fm)))]

\* Formatter.compileTemplates, its second assignment
compileSecond(fm) ==
    IF fm.NegativeTemplate = <<>> THEN fm
    ELSE [fm EXCEPT !.compiledNegativeTemplate =
                        Compiled(compileTemplate(fm.NegativeTemplate))]

\* Formatter.compileTemplates
compileTemplates(fm) ==
    IF ~fm.compiledTemplate.isNil THEN fm ELSE compileSecond(compileFirst(fm))

\* formatDecimal without the Once and without the nil test: every call compiles,
\* and appends what it compiled to the templates
onceDoAppending(fm) ==
    [fm EXCEPT !.compiledTemplate =
                   Compiled(fm.compiledTemplate.parts
                            \o compileTemplate(templateOrDefault(fm))),
               !.compiledNegativeTemplate =
                   IF fm.NegativeTemplate = <<>> THEN Nil
                   ELSE Compiled(fm.compiledNegativeTemplate.parts
                                 \o compileTemplate(fm.NegativeTemplate)),
               !.onceDone = TRUE]

\* f.compileTemplateOnce.Do(f.compileTemplates), run by one caller alone
onceDo(fm) ==
    IF fm.onceDone THEN fm ELSE [compileTemplates(fm) EXCEPT !.onceDone = TRUE]

\* formatDecimal with the two steps in the other order
roundThenShift(fm, d) ==
    LET rounded == IF ~fm.Rounder.isNil THEN Round(d, fm.Rounder.Places) ELSE d
    IN  IF fm.Shift # 0 THEN Shift(rounded, fm.Shift) ELSE rounded

\* the shift and the rounding of formatDecimal
shiftAndRound(fm, d) ==
    LET shifted == IF fm.Shift # 0 THEN Shift(d, fm.Shift) ELSE d
    IN  IF ~fm.Rounder.isNil THEN Round(shifted, fm.Rounder.Places) ELSE shifted

\* strings.SplitN(d.String(), ".", 2), and the sign cut off the integer part
splitParts(str) ==
    LET p == IndexAny(str, {"."})
        intPart == IF p = 0 THEN str ELSE Upto(str, p - 1)
        fracPart == IF p = 0 THEN <<>> ELSE From(str, p)
        neg == intPart[1] = "-"
    IN  [neg |-> neg,
         intPart |-> IF neg THEN From(intPart, 1) ELSE intPart,
         fracPart |-> fracPart]

\* the padding without the length test: buf always replaces fracPart
padFractionExactly(fracPart, minDecimalPlaces) ==
    SubSeq(fracPart \o Zeros(minDecimalPlaces), 1, minDecimalPlaces)

\* the padding of fracPart with '0' up to MinDecimalPlaces
padFraction(fracPart, minDecimalPlaces) ==
    IF Len(fracPart) < minDecimalPlaces
    THEN fracPart \o Zeros(minDecimalPlaces - Len(fracPart))
    ELSE fracPart

\* the selection without the test of neg
selectTemplateIgnoringSign(fm, neg) ==
    IF ~fm.compiledNegativeTemplate.isNil
    THEN fm.compiledNegativeTemplate
    ELSE fm.compiledTemplate

\* the template formatDecimal writes with
selectTemplate(fm, neg) ==
    IF neg /\ ~fm.compiledNegativeTemplate.isNil
    THEN fm.compiledNegativeTemplate
    ELSE fm.compiledTemplate

\* formatDecimal after the templates are compiled
render(fm, d) ==
    LET p == splitParts(String(shiftAndRound(fm, d)))
    IN  writeTemplate(selectTemplate(fm, p.neg).parts, fm, p.neg, p.intPart,
                      padFraction(p.fracPart, fm.MinDecimalPlaces))

\* Formatter.formatDecimal: the Formatter it leaves and the string it returns
formatDecimal(fm, d) ==
    LET compiled == onceDo(fm) IN [f |-> compiled, out |-> render(compiled, d)]

\* Arguments of Format: a string, a decimal.Decimal, an int32/int64, or any
\* other value, given by what fmt.Sprint prints for it
StringArg(s) == [kind |-> "string", s |-> s, d |-> [value |-> 0, exp |-> 0]]
OtherArg(s) == [kind |-> "other", s |-> s, d |-> [value |-> 0, exp |-> 0]]
DecimalArg(d) == [kind |-> "decimal", s |-> <<>>, d |-> d]
IntArg(i) == [kind |-> "int", s |-> <<>>, d |-> [value |-> i, exp |-> 0]]
NoArg == [kind |-> "none", s |-> <<>>, d |-> [value |-> 0, exp |-> 0]]

\* Format with the error of NewFromString ignored
FormatOfIgnoringError(fm, v) ==
    IF v.kind \in {"decimal", "int"} THEN formatDecimal(fm, v.d)
    ELSE formatDecimal(fm, NewFromString(v.s).d)

\* Formatter.Format
FormatOf(fm, v) ==
    IF v.kind \in {"decimal", "int"} THEN formatDecimal(fm, v.d)
    ELSE LET parsed == NewFromString(v.s)
         IN  IF parsed.err THEN [f |-> fm, out |-> v.s]
             ELSE formatDecimal(fm, parsed.d)

-----------------------------------------------------------------------------
(* The Formatters and the arguments of the model *)

GroupSeparators == {<<>>, <<" ">>}
GroupSizes == {0, 1, MaxGroupSize}
DecimalSeparators == {<<>>, <<",">>}
Rounders == {NilRounder} \cup {Rounder(p) : p \in -1..MaxPlaces}
Shifts == {-1, 0, MaxShift}
MinDecimalPlacesSet == {-1, 0, MaxMinDecimalPlaces}

Templates ==
    { <<>>,
      <<"h", "i", " ", "n">>,
      <<"+", "n">>,
      <<"n", " ", "-">>,
      <<"-", "$", "n">>,
      <<"-", "\\", "n", "n">>,
      <<"n", "\\">>,
      <<"\\", "n", " ", "\\", "-", " ", "\\", "+", " ", "\\", "\\", " ", "n">> }

NegativeTemplates == { <<>>, <<"(", "n", ")">> }

ZeroFormatter ==
    [GroupSeparator |-> <<>>, GroupSize |-> 0, DecimalSeparator |-> <<>>,
     Rounder |-> NilRounder, Shift |-> 0, MinDecimalPlaces |-> 0,
     Template |-> <<>>, NegativeTemplate |-> <<>>,
     compiledTemplate |-> Nil, compiledNegativeTemplate |-> Nil, onceDone |-> FALSE]

OptionFields ==
    {"GroupSeparator", "GroupSize", "DecimalSeparator", "Rounder", "Shift",
     "MinDecimalPlaces", "Template", "NegativeTemplate"}

OptionsSet(fm) == {k \in OptionFields : fm[k] # ZeroFormatter[k]}

\* the Formatters a caller constructs: never used, at most MaxOptionsSet options set
Formatters ==
    {fm \in [GroupSeparator : GroupSeparators,
             GroupSize : GroupSizes,
             DecimalSeparator : DecimalSeparators,
             Rounder : Rounders,
             Shift : Shifts,
             MinDecimalPlaces : MinDecimalPlacesSet,
             Template : Templates,
             NegativeTemplate : NegativeTemplates,
             compiledTemplate : {Nil},
             compiledNegativeTemplate : {Nil},
             onceDone : {FALSE}] : Cardinality(OptionsSet(fm)) <= MaxOptionsSet}

Coefficients == {0, 315, 1234}

Decimals ==
    {[value |-> sgn * c, exp |-> -e] :
        sgn \in {1, -1}, c \in Coefficients, e \in 0..MaxFracDigits}

NumericStrings ==
    {String(d) : d \in Decimals}
    \cup { <<"1", ".", "0">>, <<"-", "0">> }

NonNumericStrings ==
    { <<"f", "o", "o", "b", "a", "r">>, <<>>, <<"1", ".", "2", ".", "3">> }

Args ==
    {StringArg(s) : s \in NumericStrings \cup NonNumericStrings}
    \cup {OtherArg(s) : s \in {<<"t", "r", "u", "e">>}}
    \cup {DecimalArg(d) : d \in {[value |-> -10, exp |-> -1]}}
    \cup {IntArg(i) : i \in {1234}}

-----------------------------------------------------------------------------------------------------------------------------------------------------
(* Format calls on one Formatter, one after the other *)

Procs == 1..NumProcs

GroupsIdle == num = <<>> /\ sep = <<>> /\ size = 0 /\ sb = <<>> /\ status = "none"

ConcurrentIdle ==
    /\ pc = [p \in Procs |-> "idle"]
    /\ cur = [p \in Procs |-> NoArg]
    /\ res = [p \in Procs |-> <<>>]
    /\ onceM = 0
    /\ compiles = 0

\* TemplateFunc not called
NoTemplateFunc == [state |-> "none", f |-> ZeroFormatter, v |-> NoArg, out |-> <<>>]

AuxIdle ==
    /\ calls = 0
    /\ targs = <<>>
    /\ tfunc = NoTemplateFunc
    /\ timm = NoTemplateFunc

Init ==
    /\ f \in Formatters
    /\ arg = NoArg
    /\ out = <<>>
    /\ GroupsIdle
    /\ ConcurrentIdle
    /\ AuxIdle

Format(v) ==
    /\ LET r == FormatOf(f, v)
       IN  f' = r.f /\ out' = r.out
    /\ arg' = v
    /\ UNCHANGED <<auxVars, grpVars, conVars>>

Next == \E v \in Args : Format(v)

Spec == Init /\ [][Next]_vars

-----------------------------------------------------------------------------
(* Format calls on one Formatter, counted *)

CountedArgs ==
    {StringArg(<<"-", "1", "2", "3", "4">>), StringArg(<<"3", "1", ".", "5">>),
     StringArg(<<"f", "o", "o", "b", "a", "r">>), IntArg(1234)}

CountedFormat(v) ==
    /\ calls < MaxCalls
    /\ calls' = calls + 1
    /\ LET r == FormatOf(f, v)
       IN  f' = r.f /\ out' = r.out
    /\ arg' = v
    /\ UNCHANGED <<grpVars, conVars, targs, tfunc, timm>>

NextCounted == \E v \in CountedArgs : CountedFormat(v)

SpecCounted == Init /\ [][NextCounted]_vars

-----------------------------------------------------------------------------
(* TemplateFunc *)

KeyGroupSeparator == <<"G", "r", "o", "u", "p", "S", "e", "p", "a", "r", "a", "t", "o", "r">>
KeyGroupSize == <<"G", "r", "o", "u", "p", "S", "i", "z", "e">>
KeyDecimalSeparator ==
    <<"D", "e", "c", "i", "m", "a", "l", "S", "e", "p", "a", "r", "a", "t", "o", "r">>
KeyRoundPlaces == <<"R", "o", "u", "n", "d", "P", "l", "a", "c", "e", "s">>
KeyShift == <<"S", "h", "i", "f", "t">>
KeyMinDecimalPlaces ==
    <<"M", "i", "n", "D", "e", "c", "i", "m", "a", "l", "P", "l", "a", "c", "e", "s">>
KeyTemplate == <<"T", "e", "m", "p", "l", "a", "t", "e">>
KeyNegativeTemplate ==
    <<"N", "e", "g", "a", "t", "i", "v", "e", "T", "e", "m", "p", "l", "a", "t", "e">>

\* fmt.Sprint of one value
Sprint(a) ==
    CASE a.kind = "int" ->
            IF a.d.value < 0 THEN <<"-">> \o NatString(-a.d.value) ELSE NatString(a.d.value)
      [] a.kind = "decimal" -> String(a.d)
      [] OTHER -> a.s

\* `case "K":` of the switch on key: key holds the string K
KeyIs(key, k) == key.kind = "string" /\ key.s = k

\* one pass of the loop body: the switch on key
setOption(fm, key, strValue) ==
    LET n == ParseInt(strValue)
        set(field, x) == [err |-> FALSE, f |-> [fm EXCEPT ![field] = x]]
        setInt(field, x) == IF ~n.ok THEN [err |-> TRUE, f |-> fm] ELSE set(field, x)
    IN  CASE KeyIs(key, KeyGroupSeparator) -> set("GroupSeparator", strValue)
          [] KeyIs(key, KeyGroupSize) -> setInt("GroupSize", n.n)
          [] KeyIs(key, KeyDecimalSeparator) -> set("DecimalSeparator", strValue)
          [] KeyIs(key, KeyRoundPlaces) -> setInt("Rounder", Rounder(n.n))
          [] KeyIs(key, KeyShift) -> setInt("Shift", n.n)
          [] KeyIs(key, KeyMinDecimalPlaces) -> setInt("MinDecimalPlaces", n.n)
          [] KeyIs(key, KeyTemplate) -> set("Template", strValue)
          [] KeyIs(key, KeyNegativeTemplate) -> set("NegativeTemplate", strValue)
          [] OTHER -> [err |-> TRUE, f |-> fm]

\* a loop bound that leaves out the last two arguments
pairsEndShort(args) == Len(args) - 2

\* the bound of `for i := 0; i < len(args)-1; i += 2`
pairsEnd(args) == Len(args) - 1

RECURSIVE templateFuncLoop(_, _, _)
templateFuncLoop(fm, args, i) ==
    IF ~(i < pairsEnd(args)) THEN [err |-> FALSE, f |-> fm]
    ELSE LET r == setOption(fm, args[i + 1], Sprint(args[i + 2]))
         IN  IF r.err THEN r ELSE templateFuncLoop(r.f, args, i + 2)

\* What TemplateFunc returns: an error, the string of the last argument
\* formatted, or the method value f.Format, which holds its Formatter
TemplateFunc(args) ==
    LET built == templateFuncLoop(ZeroFormatter, args, 0)
        last == args[Len(args)]
        r == FormatOf(built.f, last)
    IN  IF built.err THEN [state |-> "error", f |-> ZeroFormatter, v |-> NoArg, out |-> <<>>]
        ELSE IF Len(args) % 2 = 1
             THEN [state |-> "string", f |-> r.f, v |-> last, out |-> r.out]
             ELSE [state |-> "func", f |-> built.f, v |-> NoArg, out |-> <<>>]

\* the key/value pairs of the calls
Pairs ==
    { <<StringArg(KeyGroupSeparator), StringArg(<<" ">>)>>,
      <<StringArg(KeyGroupSize), IntArg(1)>>,
      <<StringArg(KeyGroupSize), StringArg(<<"x">>)>>,
      <<StringArg(KeyDecimalSeparator), StringArg(<<",">>)>>,
      <<StringArg(KeyRoundPlaces), IntArg(0)>>,
      <<StringArg(KeyRoundPlaces), StringArg(<<"1">>)>>,
      <<StringArg(KeyShift), IntArg(2)>>,
      <<StringArg(KeyMinDecimalPlaces), IntArg(2)>>,
      <<StringArg(KeyTemplate), StringArg(<<"+", "n">>)>>,
      <<StringArg(KeyNegativeTemplate), StringArg(<<"(", "n", ")">>)>>,
      <<StringArg(<<"F", "o", "o">>), IntArg(1)>>,
      <<IntArg(1), StringArg(KeyShift)>> }

RECURSIVE PairLists(_)
PairLists(k) ==
    IF k = 0 THEN {<<>>}
    ELSE PairLists(k - 1) \cup {l \o p : l \in PairLists(k - 1), p \in Pairs}

TemplateFuncValues ==
    {StringArg(<<"1", "2", "3", "4", ".", "5">>), StringArg(<<"-", "1", "2", "3">>),
     StringArg(<<"0", ".", "3", "1", "5">>), StringArg(<<"f", "o", "o", "b", "a", "r">>),
     IntArg(1234)}

InitTemplateFunc ==
    /\ f = ZeroFormatter
    /\ arg = NoArg
    /\ out = <<>>
    /\ GroupsIdle
    /\ ConcurrentIdle
    /\ calls = 0
    /\ targs \in PairLists(MaxPairs)
    /\ tfunc = NoTemplateFunc
    /\ timm = NoTemplateFunc

\* fn, err := TemplateFunc(args...)
CallTemplateFunc ==
    /\ tfunc.state = "none"
    /\ tfunc' = TemplateFunc(targs)
    /\ UNCHANGED <<fmtVars, grpVars, conVars, calls, targs, timm>>

\* fn(v), for the fn that the call returned
ApplyFunc(v) ==
    /\ tfunc.state = "func"
    /\ LET r == FormatOf(tfunc.f, v)
       IN  tfunc' = [state |-> "func", f |-> r.f, v |-> v, out |-> r.out]
    /\ UNCHANGED <<fmtVars, grpVars, conVars, calls, targs, timm>>

\* actual, err := TemplateFunc(append(args, v)...)
CallTemplateFuncWith(v) ==
    /\ timm' = TemplateFunc(Append(targs, v))
    /\ UNCHANGED <<fmtVars, grpVars, conVars, calls, targs, tfunc>>

NextTemplateFunc ==
    \/ CallTemplateFunc
    \/ \E v \in TemplateFuncValues : ApplyFunc(v)
    \/ \E v \in TemplateFuncValues : CallTemplateFuncWith(v)

SpecTemplateFunc == InitTemplateFunc /\ [][NextTemplateFunc]_vars

-----------------------------------------------------------------------------
(* writeSeparateGroups on its own *)

\* the digit string "1234567890123..." cut to k digits
DigitRun(k) == [i \in 1..k |-> Digits[(i % 10) + 1]]

Nums == {DigitRun(k) : k \in 0..MaxNumLen}
Separators == {<<>>, <<",">>, <<" ">>, <<"'", "'">>}
Sizes == (-MaxSize)..MaxSize

InitGroups ==
    /\ f = ZeroFormatter /\ arg = NoArg /\ out = <<>>
    /\ num \in Nums
    /\ sep \in Separators
    /\ size \in Sizes
    /\ sb = <<>>
    /\ status = "none"
    /\ ConcurrentIdle
    /\ AuxIdle

WriteSeparateGroups ==
    /\ status = "none"
    /\ LET w == writeSeparateGroups(num, sep, size)
       IN  /\ sb' = sb \o w.written
           /\ status' = IF w.panic THEN "panicked" ELSE "returned"
    /\ UNCHANGED <<auxVars, fmtVars, num, sep, size, conVars>>

NextGroups == WriteSeparateGroups

SpecGroups == InitGroups /\ [][NextGroups]_vars

-----------------------------------------------------------------------------
(* Concurrent Format calls on one shared Formatter *)

ConcurrentFormatters ==
    {[ZeroFormatter EXCEPT !.Template = t, !.NegativeTemplate = nt] :
        t \in {<<>>, <<"-", "$", "n">>}, nt \in NegativeTemplates}

ConcurrentArgs ==
    {StringArg(<<"-", "5">>), StringArg(<<"5">>), StringArg(<<"f", "o", "o">>)}

InitConcurrent ==
    /\ f \in ConcurrentFormatters
    /\ arg = NoArg /\ out = <<>>
    /\ GroupsIdle
    /\ ConcurrentIdle
    /\ AuxIdle

\* Format up to the call of formatDecimal: a value that does not parse is returned as is
Call(p, v) ==
    /\ pc[p] = "idle"
    /\ cur' = [cur EXCEPT ![p] = v]
    /\ IF v.kind \notin {"decimal", "int"} /\ NewFromString(v.s).err
       THEN /\ res' = [res EXCEPT ![p] = v.s]
            /\ pc' = pc
       ELSE /\ res' = [res EXCEPT ![p] = <<>>]
            /\ pc' = [pc EXCEPT ![p] = "once"]
    /\ UNCHANGED <<auxVars, fmtVars, grpVars, onceM, compiles>>

\* a once that looks at the template instead of done
onceFastPathByTemplate(fm) == ~fm.compiledTemplate.isNil

\* Once.Do: the fast path is taken when done is already set
onceFastPath(fm) == fm.onceDone

OnceDo(p) ==
    /\ pc[p] = "once"
    /\ pc' = [pc EXCEPT ![p] = IF onceFastPath(f) THEN "render" ELSE "lock"]
    /\ UNCHANGED <<auxVars, fmtVars, grpVars, cur, res, onceM, compiles>>

\* Once.doSlow: o.m.Lock()
OnceLock(p) ==
    /\ pc[p] = "lock"
    /\ onceM = 0
    /\ onceM' = p
    /\ pc' = [pc EXCEPT ![p] = "check"]
    /\ UNCHANGED <<auxVars, fmtVars, grpVars, cur, res, compiles>>

\* Once.doSlow: the second look at done, under the lock
OnceCheck(p) ==
    /\ pc[p] = "check"
    /\ pc' = [pc EXCEPT ![p] = IF f.onceDone THEN "unlock" ELSE "compile"]
    /\ UNCHANGED <<auxVars, fmtVars, grpVars, cur, res, onceM, compiles>>

\* compileTemplates up to its first assignment
CompileFirst(p) ==
    /\ pc[p] = "compile"
    /\ compiles' = compiles + 1
    /\ IF ~f.compiledTemplate.isNil
       THEN /\ f' = f
            /\ pc' = [pc EXCEPT ![p] = "store"]
       ELSE /\ f' = compileFirst(f)
            /\ pc' = [pc EXCEPT ![p] = "compileNegative"]
    /\ UNCHANGED <<auxVars, arg, out, grpVars, cur, res, onceM>>

\* compileTemplates from there to its end
CompileSecond(p) ==
    /\ pc[p] = "compileNegative"
    /\ f' = compileSecond(f)
    /\ pc' = [pc EXCEPT ![p] = "store"]
    /\ UNCHANGED <<auxVars, arg, out, grpVars, cur, res, onceM, compiles>>

\* Once.doSlow: the deferred o.done.Store(1)
OnceStore(p) ==
    /\ pc[p] = "store"
    /\ f' = [f EXCEPT !.onceDone = TRUE]
    /\ pc' = [pc EXCEPT ![p] = "unlock"]
    /\ UNCHANGED <<auxVars, arg, out, grpVars, cur, res, onceM, compiles>>

\* Once.doSlow: the deferred o.m.Unlock()
OnceUnlock(p) ==
    /\ pc[p] = "unlock"
    /\ onceM' = 0
    /\ pc' = [pc EXCEPT ![p] = "render"]
    /\ UNCHANGED <<auxVars, fmtVars, grpVars, cur, res, compiles>>

\* the rest of formatDecimal: it reads the compiled templates
Render(p) ==
    /\ pc[p] = "render"
    /\ res' = [res EXCEPT ![p] =
                  render(f, IF cur[p].kind \in {"decimal", "int"} THEN cur[p].d
                            ELSE NewFromString(cur[p].s).d)]
    /\ pc' = [pc EXCEPT ![p] = "idle"]
    /\ UNCHANGED <<auxVars, fmtVars, grpVars, cur, onceM, compiles>>

NextConcurrent ==
    \E p \in Procs :
        \/ \E v \in ConcurrentArgs : Call(p, v)
        \/ OnceDo(p)
        \/ OnceLock(p)
        \/ OnceCheck(p)
        \/ CompileFirst(p)
        \/ CompileSecond(p)
        \/ OnceStore(p)
        \/ OnceUnlock(p)
        \/ Render(p)

SpecConcurrent == InitConcurrent /\ [][NextConcurrent]_vars

-----------------------------------------------------------------------------
(* What the claims are stated with *)

\* The template language read off the template's text: one token per byte
\* that is written or acted on, an escaped byte being literal text.
RECURSIVE TokensFrom(_, _)
TokensFrom(t, i) ==
    IF i > Len(t) THEN <<>>
    ELSE IF t[i] = "\\"
         THEN IF i = Len(t) THEN <<>>
              ELSE <<[b |-> t[i + 1], verb |-> FALSE]>> \o TokensFrom(t, i + 2)
         ELSE <<[b |-> t[i], verb |-> t[i] \in {"n", "-", "+"}]>> \o TokensFrom(t, i + 1)

Tokens(t) == TokensFrom(t, 1)

HasSignVerb(t) == \E i \in 1..Len(Tokens(t)) : Tokens(t)[i].verb /\ Tokens(t)[i].b # "n"

HasEscape(t) == \E i \in 1..Len(t) : t[i] = "\\"

\* What a template's tokens write, in order: literal bytes as they are, numberText
\* for n, the sign verbs by the sign; with defaultSign, a '-' right before the
\* number of a negative value
RECURSIVE Expand(_, _, _, _)
Expand(toks, neg, numberText, defaultSign) ==
    IF toks = <<>> THEN <<>>
    ELSE LET t == Head(toks)
             piece == IF ~t.verb THEN <<t.b>>
                      ELSE IF t.b = "n"
                           THEN (IF defaultSign /\ neg THEN <<"-">> ELSE <<>>) \o numberText
                      ELSE IF t.b = "-" THEN (IF neg THEN <<"-">> ELSE <<>>)
                      ELSE (IF neg THEN <<"-">> ELSE <<"+">>)
         IN  piece \o Expand(Tail(toks), neg, numberText, defaultSign)

\* s is a decimal literal: an optional sign, digits with at most one point
\* among them and at least one digit, then possibly e or E and an integer
IsInteger(s) ==
    LET body == IF s # <<>> /\ s[1] \in {"-", "+"} THEN Tail(s) ELSE s
    IN  body # <<>> /\ \A i \in 1..Len(body) : IsDigit(body[i])

IsMantissa(s) ==
    LET body == IF s # <<>> /\ s[1] \in {"-", "+"} THEN Tail(s) ELSE s
    IN  /\ \A i \in 1..Len(body) : IsDigit(body[i]) \/ body[i] = "."
        /\ Cardinality({i \in 1..Len(body) : body[i] = "."}) <= 1
        /\ \E i \in 1..Len(body) : IsDigit(body[i])

IsDecimalLiteral(s) ==
    \/ IsMantissa(s)
    \/ \E i \in 1..Len(s) :
          /\ s[i] \in {"e", "E"}
          /\ IsMantissa(SubSeq(s, 1, i - 1))
          /\ IsInteger(SubSeq(s, i + 1, Len(s)))

\* the last Format call
Called == arg.kind # "none"

ArgIsNumber ==
    \/ arg.kind \in {"decimal", "int"}
    \/ arg.kind \in {"string", "other"} /\ IsDecimalLiteral(arg.s)

ArgDecimal == IF arg.kind \in {"decimal", "int"} THEN arg.d ELSE NewFromString(arg.s).d

\* sign, integer digits and natural fraction digits of the value as shifted and rounded
Shown == splitParts(String(shiftAndRound(f, ArgDecimal)))

ShownFraction == padFraction(Shown.fracPart, f.MinDecimalPlaces)

\* the number as the Number step writes it
NumberText == writeNumber(f, Shown.intPart, ShownFraction)

\* the text of the template the call rendered with
ActiveTemplate ==
    IF Shown.neg /\ f.NegativeTemplate # <<>> THEN f.NegativeTemplate
    ELSE templateOrDefault(f)

\* the decimal separator and fraction the Number step writes after the integer digits
FractionText ==
    IF ShownFraction = <<>> THEN <<>>
    ELSE (IF f.DecimalSeparator # <<>> THEN f.DecimalSeparator ELSE <<".">>)
         \o ShownFraction

\* out is the active template written with text as the number, whether or not a
\* '-' is put before the number of a negative value by default
OutIsTemplateWith(text) ==
    \E defaultSign \in BOOLEAN :
        out = Expand(Tokens(ActiveTemplate), Shown.neg, text, defaultSign)

\* out is what the templates compiled in f write for this sign and these digits
RenderedFrom(neg, intPart, fracPart) ==
    out = writeTemplate(selectTemplate(f, neg).parts, f, neg, intPart, fracPart)

-----------------------------------------------------------------------------
(* C1 *)

\* C1 (as claimed): with no sign verb in Template and no NegativeTemplate, a
\* negative value is written with one '-' right before the number, a
\* non-negative value with no sign; the rest is the template's literal text.
C1_DefaultSignWritten ==
    (Called /\ ArgIsNumber /\ ~HasSignVerb(templateOrDefault(f))
        /\ f.NegativeTemplate = <<>>)
    => out = Expand(Tokens(templateOrDefault(f)), Shown.neg, NumberText, TRUE)

\* C1: the call the claim fails on: the zero Formatter, Format("-1234")
C1_Failing ==
    /\ OptionsSet(f) = {}
    /\ arg = StringArg(<<"-", "1", "2", "3", "4">>)
    /\ out = <<"1", ",", "2", "3", "4">>

-----------------------------------------------------------------------------
(* C2 *)

C2_First == IF Len(num) % size = 0 THEN size ELSE Len(num) % size

C2_Chunks == (Len(num) - C2_First) \div size + 1

\* where chunk j (the leftmost is chunk 0) begins in num, and its length
C2_ChunkStart(j) == IF j = 0 THEN 0 ELSE C2_First + (j - 1) * size

C2_ChunkLen(j) == IF j = 0 THEN C2_First ELSE size

\* sb without the bytes of the separator
C2_Stripped == SelectSeq(sb, LAMBDA c : \A i \in 1..Len(sep) : sep[i] # c)

\* C2: for a non-empty separator and a size n >= 1, writeSeparateGroups writes
\* the digits cut from the right into chunks of n digits, the leftmost
\* holding len mod n digits (n when that is 0), joined by the separator, and the
\* digits unchanged when there are at most n of them.
C2_GroupedFromRight ==
    (status # "none" /\ sep # <<>> /\ size >= 1)
    => /\ status = "returned"
       /\ C2_Stripped = num
       /\ IF Len(num) <= size THEN sb = num
          ELSE /\ Len(sb) = Len(num) + (C2_Chunks - 1) * Len(sep)
               /\ \A j \in 0..(C2_Chunks - 1) :
                     SubSeq(sb, C2_ChunkStart(j) + j * Len(sep) + 1,
                                C2_ChunkStart(j) + j * Len(sep) + C2_ChunkLen(j))
                     = SubSeq(num, C2_ChunkStart(j) + 1, C2_ChunkStart(j) + C2_ChunkLen(j))
               /\ \A j \in 1..(C2_Chunks - 1) :
                     SubSeq(sb, C2_ChunkStart(j) + (j - 1) * Len(sep) + 1,
                                C2_ChunkStart(j) + j * Len(sep)) = sep

C2_Witness ==
    /\ status = "returned"
    /\ size = 3
    /\ num = <<"1", "2", "3", "4", "5", "6", "7">>
    /\ sb = <<"1", ",", "2", "3", "4", ",", "5", "6", "7">>

-----------------------------------------------------------------------------
(* C3 *)

\* c * 10^k rounded half away from zero to an integer
C3_RoundedCoefficient(c, k) ==
    IF k >= 0 THEN c * Pow10(k)
    ELSE LET a == IF c < 0 THEN -c ELSE c
             n == (2 * a + Pow10(-k)) \div (2 * Pow10(-k))
         IN  IF c < 0 THEN -n ELSE n

\* round(v * 10^s, p)
C3_ShiftThenRound ==
    [value |-> C3_RoundedCoefficient(ArgDecimal.value,
                                     ArgDecimal.exp + f.Shift + f.Rounder.Places),
     exp |-> -f.Rounder.Places]

\* round(v, p) * 10^s
C3_RoundThenShift ==
    [value |-> C3_RoundedCoefficient(ArgDecimal.value, ArgDecimal.exp + f.Rounder.Places),
     exp |-> f.Shift - f.Rounder.Places]

C3_RenderedAs(d) ==
    LET p == splitParts(String(d))
    IN  RenderedFrom(p.neg, p.intPart, padFraction(p.fracPart, f.MinDecimalPlaces))

\* C3: with a Shift s and a Rounder of p places, Format writes the digits of
\* round-half-away-from-zero(v * 10^s, p).
C3_ShiftBeforeRound ==
    (Called /\ ArgIsNumber /\ f.Shift # 0 /\ ~f.Rounder.isNil)
    => C3_RenderedAs(C3_ShiftThenRound)

C3_Witness ==
    /\ arg = StringArg(<<"0", ".", "3", "1", "5">>)
    /\ f.Shift = 2
    /\ f.Rounder = Rounder(0)
    /\ out = <<"3", "2">>
    /\ ~C3_RenderedAs(C3_RoundThenShift)

-----------------------------------------------------------------------------
(* C4 *)

\* the same Formatter, never used, with no NegativeTemplate
C4_WithoutNegativeTemplate ==
    [f EXCEPT !.NegativeTemplate = <<>>, !.compiledTemplate = Nil,
              !.compiledNegativeTemplate = Nil, !.onceDone = FALSE]

\* C4: Format writes with NegativeTemplate exactly when the value as shifted
\* and rounded is negative and NegativeTemplate is not empty (and then no '-'
\* is added to it); in every other case it writes what it would write without
\* a NegativeTemplate.
C4_NegativeTemplateSelected ==
    (Called /\ ArgIsNumber)
    => IF Shown.neg /\ f.NegativeTemplate # <<>>
       THEN out = Expand(Tokens(f.NegativeTemplate), TRUE, NumberText, FALSE)
       ELSE out = FormatOf(C4_WithoutNegativeTemplate, arg).out

C4_Witness ==
    /\ f.NegativeTemplate = <<"(", "n", ")">>
    /\ arg = StringArg(<<"-", "1", "2", "3", "4">>)
    /\ out = <<"(", "1", ",", "2", "3", "4", ")">>

-----------------------------------------------------------------------------
(* C5 *)

\* C5: in a template with a sign verb, '+' writes '-' for a negative value and
\* '+' otherwise, '-' writes '-' for a negative value and nothing otherwise,
\* each where the verb stands among the other steps.
C5_SignVerbs ==
    (Called /\ ArgIsNumber /\ HasSignVerb(ActiveTemplate))
    => out = Expand(Tokens(ActiveTemplate), Shown.neg, NumberText, FALSE)

C5_Witness ==
    /\ f.Template = <<"n", " ", "-">>
    /\ arg = StringArg(<<"-", "1", "2", "3", "4">>)
    /\ out = <<"1", ",", "2", "3", "4", " ", "-">>

-----------------------------------------------------------------------------
(* C6 *)

C6_Max(a, b) == IF a >= b THEN a ELSE b

\* the natural fraction digits, then '0's up to max(len, m) digits in all
C6_ExpectedFraction ==
    Shown.fracPart
    \o Zeros(C6_Max(Len(Shown.fracPart), f.MinDecimalPlaces) - Len(Shown.fracPart))

\* C6: the fraction Format writes is the natural fraction followed only by
\* '0's, max(len(natural fraction), MinDecimalPlaces) digits long.
C6_FractionPadded ==
    (Called /\ ArgIsNumber)
    => RenderedFrom(Shown.neg, Shown.intPart, C6_ExpectedFraction)

C6_Witness ==
    /\ f.MinDecimalPlaces = 2
    /\ arg = StringArg(<<"3", "1", ".", "5">>)
    /\ out = <<"3", "1", ".", "5", "0">>

-----------------------------------------------------------------------------
(* C7 *)

\* C7: a string, or another value whose printed form is no decimal literal, is
\* returned as that printed form, whatever the options.
C7_UnparseableReturned ==
    (Called /\ arg.kind \in {"string", "other"} /\ ~IsDecimalLiteral(arg.s))
    => out = arg.s

C7_Witness ==
    /\ arg = StringArg(<<"f", "o", "o", "b", "a", "r">>)
    /\ f.Template = <<"-", "$", "n">>
    /\ f.MinDecimalPlaces = 2
    /\ out = <<"f", "o", "o", "b", "a", "r">>

-----------------------------------------------------------------------------
(* C8 *)

\* both templates are what compileTemplates builds from the option fields
C8_FullyCompiled ==
    /\ f.compiledTemplate = Compiled(compileTemplate(templateOrDefault(f)))
    /\ f.compiledNegativeTemplate =
           (IF f.NegativeTemplate = <<>> THEN Nil
            ELSE Compiled(compileTemplate(f.NegativeTemplate)))

\* the same Formatter, never used
C8_Fresh ==
    [f EXCEPT !.compiledTemplate = Nil, !.compiledNegativeTemplate = Nil,
              !.onceDone = FALSE]

\* C8: under every interleaving the body of compileTemplates is entered at
\* most once, a goroutine reads the compiled templates only after that
\* compilation is complete, and every call returns what the fully built
\* templates write.
C8_CompiledOnce ==
    /\ compiles <= 1
    /\ \A p \in Procs :
          /\ pc[p] = "render" => f.onceDone /\ C8_FullyCompiled
          /\ (pc[p] = "idle" /\ cur[p].kind # "none")
                => res[p] = FormatOf(C8_Fresh, cur[p]).out

\* the loser of the race has waited for the lock and found done set
C8_Witness ==
    /\ compiles = 1
    /\ f.NegativeTemplate # <<>>
    /\ pc[1] = "idle" /\ cur[1] = StringArg(<<"-", "5">>) /\ res[1] = <<"(", "5", ")">>
    /\ pc[2] = "unlock" /\ onceM = 2

-----------------------------------------------------------------------------
(* C9 *)

\* C9: a backslash makes the byte after it literal text: it is written as it
\* is and renders neither the number nor a sign, and the verbs that are not
\* escaped keep their meaning.
C9_EscapedIsLiteral ==
    (Called /\ ArgIsNumber /\ HasEscape(ActiveTemplate))
    => OutIsTemplateWith(NumberText)

C9_Witness ==
    /\ f.Template = <<"\\", "n", " ", "\\", "-", " ", "\\", "+", " ", "\\", "\\", " ", "n">>
    /\ arg = StringArg(<<"3", "1", "5">>)
    /\ out = <<"n", " ", "-", " ", "+", " ", "\\", " ", "3", "1", "5">>

-----------------------------------------------------------------------------
(* C10 *)

\* digits cut from the right into groups of n, joined by s
RECURSIVE C10_GroupFromRight(_, _, _)
C10_GroupFromRight(digits, s, n) ==
    IF Len(digits) <= n THEN digits
    ELSE C10_GroupFromRight(SubSeq(digits, 1, Len(digits) - n), s, n)
         \o s \o SubSeq(digits, Len(digits) - n + 1, Len(digits))

C10_ZeroValued == f.GroupSeparator = <<>> \/ f.GroupSize = 0

-----------------------------------------------------------------------------
(* C11 *)

C11_OptionsUnchanged == \A k \in OptionFields : f'[k] = f[k]

C11_TemplatesUnchanged ==
    /\ f'.compiledTemplate = f.compiledTemplate
    /\ f'.compiledNegativeTemplate = f.compiledNegativeTemplate

\* the call of this step rendered a number with the templates f held before it
C11_RenderedWithHeld ==
    (arg'.kind \in {"decimal", "int"} \/ ~NewFromString(arg'.s).err)
    => out' = render(f, IF arg'.kind \in {"decimal", "int"} THEN arg'.d
                        ELSE NewFromString(arg'.s).d)

\* C11 (as claimed): a Format call changes no option field, and every call
\* after the first leaves the compiled templates as they are.
C11_WrittenByFirstCallOnly ==
    [][/\ C11_OptionsUnchanged
       /\ calls >= 1 => C11_TemplatesUnchanged]_vars

\* C11 (amended): a Format call changes no option field; the compiled
\* templates are written by the first call that reaches formatDecimal (the
\* first whose argument is a number), and every call after that one leaves
\* them unchanged and renders with them.
C11_WrittenAtFirstUseOnly ==
    [][/\ C11_OptionsUnchanged
       /\ f.onceDone => (C11_TemplatesUnchanged /\ C11_RenderedWithHeld)
       /\ f'.onceDone \/ f' = f]_vars

\* a third call has rendered with the templates compiled before it
C11_Witness ==
    /\ calls = 3
    /\ f.onceDone
    /\ f.NegativeTemplate = <<"(", "n", ")">>
    /\ f.compiledNegativeTemplate = Compiled(<<Literal(<<"(">>), Number, Literal(<<")">>)>>)
    /\ arg = StringArg(<<"-", "1", "2", "3", "4">>)
    /\ out = <<"(", "1", ",", "2", "3", "4", ")">>

-----------------------------------------------------------------------------
(* C12: TemplateFunc, the function it returns and the string it returns *)

\* the value of the last pair of targs with key k, NoArg if there is none
LastValue(k) ==
    LET at == {i \in 1..(Len(targs) \div 2) : targs[2 * i - 1] = StringArg(k)}
    IN  IF at = {} THEN NoArg
        ELSE targs[2 * (CHOOSE i \in at : \A j \in at : j <= i)]

TextOf(a) == IF a = NoArg THEN <<>> ELSE Sprint(a)

IntOf(a) == IF a = NoArg THEN 0 ELSE ParseInt(Sprint(a)).n

\* the Formatter whose fields are set from the pairs of targs
FormatterOfPairs ==
    [ZeroFormatter EXCEPT
        !.GroupSeparator = TextOf(LastValue(KeyGroupSeparator)),
        !.GroupSize = IntOf(LastValue(KeyGroupSize)),
        !.DecimalSeparator = TextOf(LastValue(KeyDecimalSeparator)),
        !.Rounder = IF LastValue(KeyRoundPlaces) = NoArg THEN NilRounder
                    ELSE Rounder(IntOf(LastValue(KeyRoundPlaces))),
        !.Shift = IntOf(LastValue(KeyShift)),
        !.MinDecimalPlaces = IntOf(LastValue(KeyMinDecimalPlaces)),
        !.Template = TextOf(LastValue(KeyTemplate)),
        !.NegativeTemplate = TextOf(LastValue(KeyNegativeTemplate))]

\* C12: when TemplateFunc accepts the pairs, the call with the pairs alone
\* returns a function, the call with a value v appended returns a string, and
\* both the function applied to v and that string are Format(v) of the
\* Formatter whose fields are set from the pairs.
C12_FuncAndImmediateAgree ==
    tfunc.state = "func" =>
        /\ timm.state \in {"none", "string"}
        /\ tfunc.v # NoArg => tfunc.out = FormatOf(FormatterOfPairs, tfunc.v).out
        /\ timm.state = "string" => timm.out = FormatOf(FormatterOfPairs, timm.v).out
        /\ (timm.state = "string" /\ tfunc.v = timm.v) => tfunc.out = timm.out

C12_Witness ==
    /\ targs = <<StringArg(KeyShift), IntArg(2), StringArg(KeyRoundPlaces), IntArg(0)>>
    /\ tfunc.state = "func"
    /\ timm.state = "string"
    /\ tfunc.v = StringArg(<<"0", ".", "3", "1", "5">>)
    /\ timm.v = tfunc.v
    /\ tfunc.out = <<"3", "2">>
    /\ timm.out = <<"3", "2">>

-----------------------------------------------------------------------------
(* C13: the steps compileTemplate returns *)

\* The steps of a template's tokens in order: a run of literal bytes is one
\* Literal step, a verb its own step; with insert, an OptionalSign step follows
\* every Number step
RECURSIVE Steps(_, _, _)
Steps(toks, literal, insert) ==
    LET flushed == IF literal = <<>> THEN <<>> ELSE <<Literal(literal)>>
    IN  IF toks = <<>> THEN flushed
        ELSE IF ~Head(toks).verb
             THEN Steps(Tail(toks), literal \o <<Head(toks).b>>, insert)
             ELSE flushed \o <<verbPart(Head(toks).b)>>
                  \o (IF insert /\ Head(toks).b = "n" THEN <<OptionalSign>> ELSE <<>>)
                  \o Steps(Tail(toks), <<>>, insert)

-----------------------------------------------------------------------------
(* C14: writeSeparateGroups with grouping off *)

\* C14 (as claimed): with an empty separator, a size <= 0 or at most size
\* digits, writeSeparateGroups returns without panic and has written the
\* digits unchanged.
C14_UnchangedWhenDisabled ==
    (status # "none" /\ (sep = <<>> \/ size <= 0 \/ Len(num) <= size))
    => (status = "returned" /\ sb = num)

\* C14: a call the claim fails on: writeSeparateGroups(sb, "1234", ",", -3)
\* writes "1"
C14_Failing ==
    /\ num = <<"1", "2", "3", "4">>
    /\ sep = <<",">>
    /\ size = -3
    /\ status = "returned"
    /\ sb = <<"1">>

-----------------------------------------------------------------------------
(* C15: a template that ends in a backslash with nothing after it *)

RECURSIVE TrailingBackslashes(_)
TrailingBackslashes(t) ==
    IF t = <<>> \/ t[Len(t)] # "\\" THEN 0
    ELSE 1 + TrailingBackslashes(Upto(t, Len(t) - 1))

\* the last backslash of t escapes nothing and is not itself escaped
EndsInUnescapedBackslash(t) == TrailingBackslashes(t) % 2 = 1

\* C15 (as claimed): a call that renders a number with a template ending in an
\* unescaped backslash writes a '\' as the last character of its output.
C15_TrailingBackslashWritten ==
    (Called /\ ArgIsNumber /\ EndsInUnescapedBackslash(ActiveTemplate))
    => (out # <<>> /\ out[Len(out)] = "\\")

\* C15: a call the claim fails on: Formatter{Template: `n\`}.Format("1234")
\* returns "1,234"
C15_Failing ==
    /\ OptionsSet(f) = {"Template"}
    /\ f.Template = <<"n", "\\">>
    /\ f.compiledTemplate = Compiled(<<Number>>)
    /\ arg = StringArg(<<"1", "2", "3", "4">>)
    /\ out = <<"1", ",", "2", "3", "4">>

====
